---- MODULE Spec2Model ----
(***************************************************************************)
(* Model of compath_utils.manager.CompathManager: the abstract manager     *)
(* that answers enrichment queries over a store of Pathway rows, Protein   *)
(* rows and their many-to-many membership relation.                        *)
(*                                                                         *)
(* Strings that are searched (pathway names, name queries) are sequences   *)
(* of one-character strings.  An Optional[T] is a sequence of length 0     *)
(* (None) or 1.  A Python dict / Counter is a function.                    *)
(***************************************************************************)
EXTENDS Integers, Sequences, FiniteSets, TLC

VARIABLES
    pathway_model,                    \* class attribute: "None" or a model
    pathway_model_identifier_column,  \* class attribute: "None" or a column
    protein_model,                    \* class attribute: "None" or a model
    engine,                           \* "unconstructed" | "ready" | "failed"
    parent_initialised,               \* TRUE once super().__init__ has run
    pathways,                         \* Pathway table: identifier -> name
    proteins,                         \* Protein table: row -> hgnc_symbol
    membership,                       \* association table: <<protein row, pathway identifier>>
    op,                               \* the call that has just returned ("none": no call)
    args,                             \* its arguments
    result,                           \* its return value
    raised                            \* the exception it raised ("none": returned normally)

vars == <<pathway_model, pathway_model_identifier_column, protein_model, engine,
          parent_initialised, pathways, proteins, membership, op, args, result, raised>>

config == <<pathway_model, pathway_model_identifier_column, protein_model>>
store == <<pathways, proteins, membership>>
call == <<op, args, result, raised>>

(***************************************************************************)
(* Bounds                                                                  *)
(***************************************************************************)
MaxPathways == 2
MaxProteins == 2
MaxGeneSetLen == 2
MaxLimit == 2

PathwayIds == 1..MaxPathways
ProteinRows == 1..MaxProteins
Names == {<<"a">>, <<"a", "b">>}
Symbols == {"TP53", "BRCA1"}
Queries == {<<>>, <<"a">>, <<"b">>, <<"b", "a">>, <<"_">>, <<"%", "b">>}
Limits == {<<>>} \cup {<<n>> : n \in 0..MaxLimit}
GeneSets == UNION {[1..n -> Symbols] : n \in 0..MaxGeneSetLen}

(***************************************************************************)
(* Python built-ins                                                        *)
(***************************************************************************)
None == <<>>

EmptyDict == [k \in {} |-> 0]

DictSet(d, k, v) == [x \in (DOMAIN d) \cup {k} |-> IF x = k THEN v ELSE d[x]]

Min(a, b) == IF a <= b THEN a ELSE b

Front(seq) == SubSeq(seq, 1, Len(seq) - 1)

Last(seq) == seq[Len(seq)]

Range(seq) == {seq[i] : i \in DOMAIN seq}

RECURSIVE SetToSeq(_)
SetToSeq(S) ==
    IF S = {} THEN <<>>
    ELSE LET x == CHOOSE y \in S : TRUE IN <<x>> \o SetToSeq(S \ {x})

Perms(S) ==
    {s \in [1..Cardinality(S) -> S] : \A i, j \in DOMAIN s : s[i] = s[j] => i = j}

\* collections.Counter.update: one increment per element of the iterable
RECURSIVE CounterUpdate(_, _)
CounterUpdate(c, seq) ==
    IF seq = <<>> THEN c
    ELSE LET k == Head(seq)
             n == IF k \in DOMAIN c THEN c[k] ELSE 0
         IN CounterUpdate(DictSet(c, k, n + 1), Tail(seq))

Counter(seq) == CounterUpdate(EmptyDict, seq)

\* itertools.chain(*lists)
RECURSIVE chain(_)
chain(lists) ==
    IF lists = <<>> THEN <<>> ELSE Head(lists) \o chain(Tail(lists))

(***************************************************************************)
(* The backing store as the ORM exposes it                                 *)
(***************************************************************************)
Pathway(pid) == [id |-> pid, name |-> pathways[pid]]

\* pathway.proteins: the member Protein rows of a pathway
pathway_proteins(pid) == {p \in DOMAIN proteins : <<p, pid>> \in membership}

\* protein.get_pathways_ids(): identifiers of the pathways of a protein
get_pathways_ids(p) == SetToSeq({pid \in DOMAIN pathways : <<p, pid>> \in membership})

\* pathway.get_gene_set(): the set of HGNC symbols of the pathway
get_gene_set(pid) == {proteins[p] : p \in pathway_proteins(pid)}

\* SQL LIKE: "%" matches any run of characters, "_" exactly one character
RECURSIVE LikeMatch(_, _)
LikeMatch(pat, s) ==
    IF pat = <<>> THEN s = <<>>
    ELSE IF Head(pat) = "%"
         THEN \E k \in 0..Len(s) : LikeMatch(Tail(pat), SubSeq(s, k + 1, Len(s)))
         ELSE /\ s # <<>>
              /\ Head(pat) = "_" \/ Head(pat) = Head(s)
              /\ LikeMatch(Tail(pat), Tail(s))

\* column.contains(other): column LIKE '%' || other || '%', other not escaped
contains(name, other) == LikeMatch(<<"%">> \o other \o <<"%">>, name)

\* Query.one_or_none() over rows that are unique by identifier
one_or_none(rows) ==
    IF rows = {} THEN None ELSE <<CHOOSE r \in rows : TRUE>>

(***************************************************************************)
(* CompathManager                                                          *)
(***************************************************************************)
_standard_pathway_identifier_filter(row_id, pathway_id) ==
    IF pathway_model_identifier_column = "None"
    THEN FALSE                \* None == pathway_id
    ELSE row_id = pathway_id  \* column == pathway_id

get_pathway_by_id(pathway_id) ==
    one_or_none({Pathway(pid) : pid \in
        {x \in DOMAIN pathways : _standard_pathway_identifier_filter(x, pathway_id)}})

\* a join against the input list: one row per occurrence of a symbol
_query_proteins_in_hgnc_list_join(gene_set) ==
    chain([i \in DOMAIN gene_set |->
              SetToSeq({p \in DOMAIN proteins : proteins[p] = gene_set[i]})])

_query_proteins_in_hgnc_list(gene_set) ==
    SetToSeq({p \in DOMAIN proteins : proteins[p] \in Range(gene_set)})

\* a counter that starts with every pathway at 0
pathway_counter_all(gene_set) ==
    LET prots == _query_proteins_in_hgnc_list(gene_set)
        pathways_lists == [i \in DOMAIN prots |-> get_pathways_ids(prots[i])]
    IN CounterUpdate([pid \in DOMAIN pathways |-> 0], chain(pathways_lists))

pathway_counter(gene_set) ==
    LET prots == _query_proteins_in_hgnc_list(gene_set)
        pathways_lists == [i \in DOMAIN prots |-> get_pathways_ids(prots[i])]
    IN Counter(chain(pathways_lists))

query_gene_set(gene_set) ==
    LET counter == pathway_counter(gene_set)
    IN IF \E pathway_id \in DOMAIN counter : get_pathway_by_id(pathway_id) = None
       THEN [raised |-> "AttributeError", value |-> EmptyDict]
       ELSE [raised |-> "none",
             value |-> [pathway_id \in DOMAIN counter |->
                LET pathway == get_pathway_by_id(pathway_id)[1]
                    pathway_gene_set == get_gene_set(pathway.id)
                IN [pathway_id |-> pathway_id,
                    pathway_name |-> pathway.name,
                    mapped_proteins |-> counter[pathway_id],
                    pathway_size |-> Cardinality(pathway_gene_set),
                    pathway_gene_set |-> pathway_gene_set]]]

get_all_pathways(order) == [i \in DOMAIN order |-> Pathway(order[i])]

RECURSIVE SizeDistributionOf(_)
SizeDistributionOf(rows) ==
    IF rows = <<>> THEN EmptyDict
    ELSE LET d == SizeDistributionOf(Front(rows))
             pathway == Last(rows)
         IN IF pathway_proteins(pathway.id) # {}
            THEN DictSet(d, pathway.name, Cardinality(pathway_proteins(pathway.id)))
            ELSE d

\* the comprehension without its "if pathway.proteins" filter
get_pathway_size_distribution_unfiltered(order) ==
    LET rows == get_all_pathways(order)
    IN [name \in {rows[i].name : i \in DOMAIN rows} |->
           LET last == CHOOSE i \in DOMAIN rows :
                          /\ rows[i].name = name
                          /\ \A j \in DOMAIN rows : rows[j].name = name => j <= i
           IN Cardinality(pathway_proteins(rows[last].id))]

get_pathway_size_distribution(order) == SizeDistributionOf(get_all_pathways(order))

query_pathway_by_name(order, query, limit) ==
    LET Matches(pathway) == contains(pathway.name, query)
        q == SelectSeq(get_all_pathways(order), Matches)
    IN IF limit # None /\ limit[1] # 0
       THEN SubSeq(q, 1, Min(limit[1], Len(q)))
       ELSE q

RECURSIVE GenesetsOf(_)
GenesetsOf(rows) ==
    IF rows = <<>> THEN EmptyDict
    ELSE LET pathway == Last(rows)
         IN DictSet(GenesetsOf(Front(rows)), pathway.name,
                    {proteins[protein] : protein \in pathway_proteins(pathway.id)})

\* every pathway mapped to the symbols of the whole Protein table
export_genesets_all_proteins(order) ==
    LET rows == get_all_pathways(order)
    IN [name \in {rows[i].name : i \in DOMAIN rows} |->
           {proteins[protein] : protein \in DOMAIN proteins}]

export_genesets(order) == GenesetsOf(get_all_pathways(order))

RECURSIVE GeneCounterOf(_)
GeneCounterOf(rows) ==
    IF rows = <<>> THEN EmptyDict
    ELSE LET gene_counter == GeneCounterOf(Front(rows))
             pathway == Last(rows)
             genes == SetToSeq(pathway_proteins(pathway.id))
         IN IF pathway_proteins(pathway.id) = {}
            THEN gene_counter
            ELSE CounterUpdate(gene_counter, [i \in DOMAIN genes |-> proteins[genes[i]]])

get_gene_distribution(order) == GeneCounterOf(get_all_pathways(order))

(***************************************************************************)
(* Actions                                                                 *)
(***************************************************************************)
Init ==
    /\ pathway_model \in {"None", "Pathway"}
    /\ pathway_model_identifier_column \in {"None", "resource_id"}
    /\ protein_model \in {"None", "Protein"}
    /\ engine = "unconstructed"
    /\ parent_initialised = FALSE
    /\ pathways = EmptyDict
    /\ proteins = EmptyDict
    /\ membership = {}
    /\ op = "none"
    /\ args = <<>>
    /\ result = <<>>
    /\ raised = "none"

\* The external population process; no call of the manager is in progress.
AddPathway ==
    /\ op = "none"
    /\ \E pid \in PathwayIds \ DOMAIN pathways, name \in Names :
          pathways' = DictSet(pathways, pid, name)
    /\ UNCHANGED <<config, engine, parent_initialised, proteins, membership, call>>

AddProtein ==
    /\ op = "none"
    /\ \E p \in ProteinRows \ DOMAIN proteins, hgnc_symbol \in Symbols :
          proteins' = DictSet(proteins, p, hgnc_symbol)
    /\ UNCHANGED <<config, engine, parent_initialised, pathways, membership, call>>

AddMembership ==
    /\ op = "none"
    /\ \E p \in DOMAIN proteins, pid \in DOMAIN pathways :
          /\ <<p, pid>> \notin membership
          /\ membership' = membership \cup {<<p, pid>>}
    /\ UNCHANGED <<config, engine, parent_initialised, pathways, proteins, call>>

InitPathwayModelError ==
    /\ engine = "unconstructed"
    /\ pathway_model = "None"
    /\ engine' = "failed"
    /\ raised' = "CompathManagerPathwayModelError"
    /\ UNCHANGED <<config, store, parent_initialised, op, args, result>>

InitProteinModelError ==
    /\ engine = "unconstructed"
    /\ pathway_model # "None"
    /\ protein_model = "None"
    /\ engine' = "failed"
    /\ raised' = "CompathManagerProteinModelError"
    /\ UNCHANGED <<config, store, parent_initialised, op, args, result>>

\* construction that does not check protein_model
InitOk_NoProteinCheck ==
    /\ engine = "unconstructed"
    /\ pathway_model # "None"
    /\ parent_initialised' = TRUE
    /\ engine' = "ready"
    /\ UNCHANGED <<config, store, call>>

InitOk ==
    /\ engine = "unconstructed"
    /\ pathway_model # "None"
    /\ protein_model # "None"
    /\ parent_initialised' = TRUE
    /\ engine' = "ready"
    /\ UNCHANGED <<config, store, call>>

CompathManager_init == InitPathwayModelError \/ InitProteinModelError \/ InitOk

QueryGeneSet ==
    /\ engine = "ready"
    /\ op = "none"
    /\ \E gene_set \in GeneSets :
          LET r == query_gene_set(gene_set)
          IN /\ op' = "query_gene_set"
             /\ args' = gene_set
             /\ result' = r.value
             /\ raised' = r.raised
    /\ UNCHANGED <<config, store, engine, parent_initialised>>

GetPathwayById ==
    /\ engine = "ready"
    /\ op = "none"
    /\ \E pathway_id \in PathwayIds :
          /\ op' = "get_pathway_by_id"
          /\ args' = pathway_id
          /\ result' = get_pathway_by_id(pathway_id)
          /\ raised' = "none"
    /\ UNCHANGED <<config, store, engine, parent_initialised>>

GetPathwaySizeDistribution ==
    /\ engine = "ready"
    /\ op = "none"
    /\ \E order \in Perms(DOMAIN pathways) :
          /\ op' = "get_pathway_size_distribution"
          /\ args' = <<>>
          /\ result' = get_pathway_size_distribution(order)
          /\ raised' = "none"
    /\ UNCHANGED <<config, store, engine, parent_initialised>>

QueryPathwayByName ==
    /\ engine = "ready"
    /\ op = "none"
    /\ \E order \in Perms(DOMAIN pathways), query \in Queries, limit \in Limits :
          /\ op' = "query_pathway_by_name"
          /\ args' = [query |-> query, limit |-> limit]
          /\ result' = query_pathway_by_name(order, query, limit)
          /\ raised' = "none"
    /\ UNCHANGED <<config, store, engine, parent_initialised>>

ExportGenesets ==
    /\ engine = "ready"
    /\ op = "none"
    /\ \E order \in Perms(DOMAIN pathways) :
          /\ op' = "export_genesets"
          /\ args' = <<>>
          /\ result' = export_genesets(order)
          /\ raised' = "none"
    /\ UNCHANGED <<config, store, engine, parent_initialised>>

GetGeneDistribution ==
    /\ engine = "ready"
    /\ op = "none"
    /\ \E order \in Perms(DOMAIN pathways) :
          /\ op' = "get_gene_distribution"
          /\ args' = <<>>
          /\ result' = get_gene_distribution(order)
          /\ raised' = "none"
    /\ UNCHANGED <<config, store, engine, parent_initialised>>

\* The caller takes the return value (or the exception) of the call.
Return ==
    /\ op # "none"
    /\ op' = "none"
    /\ args' = <<>>
    /\ result' = <<>>
    /\ raised' = "none"
    /\ UNCHANGED <<config, store, engine, parent_initialised>>

Next ==
    \/ AddPathway
    \/ AddProtein
    \/ AddMembership
    \/ CompathManager_init
    \/ QueryGeneSet
    \/ GetPathwayById
    \/ GetPathwaySizeDistribution
    \/ QueryPathwayByName
    \/ ExportGenesets
    \/ GetGeneDistribution
    \/ Return

Spec == Init /\ [][Next]_vars

(***************************************************************************)
(* No operation of the manager writes to the store or to the manager, so   *)
(* the calls do not influence one another: a property of one operation is  *)
(* checked with the population process, the construction and the calls of  *)
(* that operation alone.                                                   *)
(***************************************************************************)
Populate == AddPathway \/ AddProtein \/ AddMembership

NextGeneSet ==
    \/ Populate
    \/ CompathManager_init
    \/ QueryGeneSet
    \/ Return

SpecGeneSet == Init /\ [][NextGeneSet]_vars

NextDistributions ==
    \/ Populate
    \/ CompathManager_init
    \/ GetPathwaySizeDistribution
    \/ ExportGenesets
    \/ Return

SpecDistributions == Init /\ [][NextDistributions]_vars

(***************************************************************************)
(* Properties                                                              *)
(***************************************************************************)
\* name has other as a contiguous substring
Substring(name, other) ==
    \E i \in 0..(Len(name) - Len(other)) : SubSeq(name, i + 1, i + Len(other)) = other

GeneSetReturned == op = "query_gene_set" /\ raised = "none"

\* the Protein rows of pathway pid whose symbol is in the gene set
MatchedIn(gene_set, pid) ==
    {p \in DOMAIN proteins : proteins[p] \in Range(gene_set) /\ <<p, pid>> \in membership}

\* C1: every record returned by query_gene_set has
\* mapped_proteins <= pathway_size.
C1_MappedAtMostSize ==
    GeneSetReturned =>
        \A k \in DOMAIN result : result[k].mapped_proteins <= result[k].pathway_size

\* C2: the keys of query_gene_set(G) are pathways with mapped_proteins >= 1,
\* each with a member protein whose symbol is in G, and the result for the
\* empty gene set is the empty mapping.
C2_OnlyMatchedPathways ==
    op = "query_gene_set" =>
        /\ \A k \in DOMAIN result :
              /\ result[k].mapped_proteins >= 1
              /\ k \in DOMAIN pathways
              /\ \E p \in pathway_proteins(k) : proteins[p] \in Range(args)
        /\ args = <<>> => raised = "none" /\ result = EmptyDict

C2_Witness ==
    /\ GeneSetReturned
    /\ result # EmptyDict
    /\ \E pid \in DOMAIN pathways :
          /\ pid \notin DOMAIN result
          /\ pathway_proteins(pid) # {}

\* C3: with pathway_model or protein_model unset, construction raises the
\* corresponding model error, the parent initialisation has not run, the
\* engine is not usable and no call has been made on it.
C3_ModelBindingsChecked ==
    (engine # "unconstructed" /\ (pathway_model = "None" \/ protein_model = "None")) =>
        /\ engine = "failed"
        /\ raised = IF pathway_model = "None"
                    THEN "CompathManagerPathwayModelError"
                    ELSE "CompathManagerProteinModelError"
        /\ ~parent_initialised
        /\ op = "none"

C3_Witness ==
    /\ engine = "failed"
    /\ pathway_model # "None"
    /\ protein_model = "None"
    /\ raised = "CompathManagerProteinModelError"
    /\ membership # {}

\* C4: with both models set and pathway_model_identifier_column unset,
\* construction fails with an error naming the identifier column.
C4_IdentifierCheckedAtConstruction ==
    (/\ engine # "unconstructed"
     /\ pathway_model # "None"
     /\ protein_model # "None"
     /\ pathway_model_identifier_column = "None") =>
        /\ engine = "failed"
        /\ raised = "CompathManagerPathwayIdentifierError"

\* the symbols of the Protein rows that are members of pathway pid
SymbolsOf(pid) == {proteins[p] : p \in {x \in DOMAIN proteins : <<x, pid>> \in membership}}

\* C5 as stated: export_genesets() maps the name of every pathway with at
\* least one member to the set of symbols of that pathway's members.
C5_ExportPerPathway ==
    op = "export_genesets" =>
        \A pid \in DOMAIN pathways :
            pathway_proteins(pid) # {} =>
                /\ pathways[pid] \in DOMAIN result
                /\ result[pathways[pid]] = SymbolsOf(pid)

\* C5 amended: export_genesets() maps the name of every pathway with at
\* least one member, whose name no other pathway has, to the set of symbols
\* of that pathway's members.
C5_ExportPerUniquelyNamedPathway ==
    op = "export_genesets" =>
        \A pid \in DOMAIN pathways :
            (/\ pathway_proteins(pid) # {}
             /\ \A other \in DOMAIN pathways : pathways[other] = pathways[pid] => other = pid) =>
                /\ pathways[pid] \in DOMAIN result
                /\ result[pathways[pid]] = SymbolsOf(pid)

C5_Witness ==
    /\ op = "export_genesets"
    /\ \E pid, other \in DOMAIN pathways :
          /\ pathways[pid] # pathways[other]
          /\ pathway_proteins(pid) # {}
          /\ pathway_proteins(other) # {}
          /\ result[pathways[pid]] # result[pathways[other]]

\* C6: get_pathway_size_distribution() has no entry with value 0; every
\* value is the member count of a pathway with that name; a name that only
\* pathways without members have is not a key.
C6_NoZeroSize ==
    op = "get_pathway_size_distribution" =>
        /\ \A name \in DOMAIN result :
              /\ result[name] # 0
              /\ \E pid \in DOMAIN pathways :
                    /\ pathways[pid] = name
                    /\ result[name] = Cardinality(pathway_proteins(pid))
        /\ \A pid \in DOMAIN pathways :
              (\A other \in DOMAIN pathways :
                  pathways[other] = pathways[pid] => pathway_proteins(other) = {})
              => pathways[pid] \notin DOMAIN result

C6_Witness ==
    /\ op = "get_pathway_size_distribution"
    /\ result # EmptyDict
    /\ \E pid \in DOMAIN pathways :
          /\ pathway_proteins(pid) = {}
          /\ pathways[pid] \notin DOMAIN result

\* C7: query_pathway_by_name(q, L) returns only pathways whose name has q
\* as a substring; with a positive L it returns min(L, number of such
\* pathways) rows, and without L all of them.
C7_SubstringAndLimit ==
    op = "query_pathway_by_name" =>
        LET matching == {pid \in DOMAIN pathways : Substring(pathways[pid], args.query)}
        IN /\ \A i \in DOMAIN result : Substring(result[i].name, args.query)
           /\ (args.limit # None /\ args.limit[1] > 0) =>
                 Len(result) = Min(args.limit[1], Cardinality(matching))
           /\ args.limit = None =>
                 {result[i].id : i \in DOMAIN result} = matching

\* C8: mapped_proteins of each record of query_gene_set(G) is the number of
\* distinct Protein rows of that pathway whose symbol is in G, however
\* often a symbol is repeated in G.
C8_CountsProteinRows ==
    GeneSetReturned =>
        \A k \in DOMAIN result :
            result[k].mapped_proteins = Cardinality(MatchedIn(args, k))

C8_Witness ==
    /\ GeneSetReturned
    /\ Len(args) > Cardinality(Range(args))
    /\ \E k \in DOMAIN result : result[k].mapped_proteins = 2

\* C9: when a counted pathway identifier does not resolve to a Pathway row,
\* query_gene_set raises NotFoundError and returns no mapping.
C9_UnresolvedRaisesNotFound ==
    (/\ op = "query_gene_set"
     /\ \E k \in DOMAIN pathway_counter(args) : get_pathway_by_id(k) = None) =>
        /\ raised = "NotFoundError"
        /\ result = EmptyDict

\* C10: get_gene_distribution()[s] is the number of pathways that have a
\* member protein with symbol s, and no symbol is present with count 0.
C10_CountsPathwaysPerSymbol ==
    op = "get_gene_distribution" =>
        \A s \in Symbols :
            LET n == Cardinality({pid \in DOMAIN pathways : s \in SymbolsOf(pid)})
            IN IF n = 0 THEN s \notin DOMAIN result
               ELSE s \in DOMAIN result /\ result[s] = n
====
